---- MODULE Spec2Model ----
(***************************************************************************)
(* A model of the retrieval-augmented generation program: the nearVector   *)
(* argument builder of the vendored Weaviate client (nearvectorbuilder.go) *)
(* and the indexDocuments / processQuery pipelines of the three program    *)
(* variants (main.go: Ollama + Weaviate, part_000: Ollama + Qdrant,        *)
(* chatgpt.gobak: OpenAI + Weaviate).                                      *)
(***************************************************************************)
EXTENDS Integers, Sequences, FiniteSets, TLC

(***************************************************************************)
(* Bounds of the model.                                                    *)
(***************************************************************************)
\* longest list of names passed to WithTargetVectors
MaxDeclared == 3
\* most vectors one target holds in a map passed to WithVectorsPerTarget
MaxVecs == 2

(***************************************************************************)
(* Input values.                                                           *)
(***************************************************************************)
TargetNames == {"t1", "t2"}
\* values of the []float32 argument of WithVector: nil/empty and non-empty
VectorInputs == {<<>>, <<1>>, <<1, 2>>}
\* the vectors that the per-target maps hold
TargetVectorInputs == {<<1>>}
\* values of the float32 argument of WithCertainty / WithDistance
Thresholds == {1}
\* values of the *MultiTargetArgumentBuilder argument of WithTargets
TargetsInputs == {"nil", "mt"}

SeqsUpTo(S, n) == UNION {[1..k -> S] : k \in 0..n}

\* A Go map[string]T is a function whose domain is a subset of the keys; the
\* nil map and the empty map are both the function with the empty domain.
MapsTo(S) == UNION {[D -> S] : D \in SUBSET TargetNames}
EmptyMap == <<>>
len(m) == Cardinality(DOMAIN m)

VectorLists == SeqsUpTo(TargetVectorInputs, MaxVecs)
\* arguments of WithVectorsPerTarget (map[string][][]float32)
VectorsPerTargetInputs == MapsTo(VectorLists)
\* arguments of WithVectorPerTarget (map[string][]float32)
VectorPerTargetInputs == MapsTo(TargetVectorInputs)
\* arguments of WithTargetVectors (variadic ...string)
DeclaredInputs == SeqsUpTo(TargetNames, MaxDeclared)

\* all orders in which a range loop may visit the keys of map m
Orders(m) ==
    {o \in [1..len(m) -> DOMAIN m] : \A i, j \in 1..len(m) : i # j => o[i] # o[j]}

(***************************************************************************)
(* NearVectorArgumentBuilder: the struct and its With* methods, as         *)
(* functions from the builder before the call to the builder after it.     *)
(***************************************************************************)
NewBuilder ==
    [vector           |-> <<>>,
     vectorsPerTarget |-> EmptyMap,
     withCertainty    |-> FALSE,
     certainty        |-> 0,
     withDistance     |-> FALSE,
     distance         |-> 0,
     targetVectors    |-> <<>>,
     targets          |-> "nil"]

WithVector(bld, v) == [bld EXCEPT !.vector = v]

WithVectorPerTarget(bld, vectorPerTarget) ==
    IF len(vectorPerTarget) > 0
    THEN [bld EXCEPT !.vectorsPerTarget =
                [k \in DOMAIN vectorPerTarget |-> <<vectorPerTarget[k]>>]]
    ELSE bld

WithVectorsPerTarget(bld, vectorPerTarget) ==
    IF len(vectorPerTarget) > 0
    THEN [bld EXCEPT !.vectorsPerTarget = vectorPerTarget]
    ELSE bld

WithCertainty(bld, c) == [bld EXCEPT !.withCertainty = TRUE, !.certainty = c]

WithDistance(bld, d) == [bld EXCEPT !.withDistance = TRUE, !.distance = d]

WithTargetVectors(bld, names) ==
    IF Len(names) > 0 THEN [bld EXCEPT !.targetVectors = names] ELSE bld

WithTargets(bld, t) == [bld EXCEPT !.targets = t]

(***************************************************************************)
(* build.  The returned string is "nearVector:{" + the clauses joined by   *)
(* blanks + "}"; it is modelled as the sequence of its clauses, each a     *)
(* record of the clause's keyword and the values printed after it.         *)
(***************************************************************************)
Clause(kind) ==
    [kind |-> kind, num |-> 0, vec |-> <<>>, perTarget |-> <<>>,
     names |-> <<>>, targets |-> "nil"]

RepeatName(target, n) == [i \in 1..n |-> target]

\* prepareTargetVectors without the repetition: every declared name once
prepareTargetVectors_once(bld, targets) == targets

\* the loop over the declared names, left to right
RECURSIVE prepareTargetVectors(_, _)
prepareTargetVectors(bld, targets) ==
    IF targets = <<>> THEN <<>>
    ELSE LET target == Head(targets)
             block  == IF target \in DOMAIN bld.vectorsPerTarget
                       THEN RepeatName(target, Len(bld.vectorsPerTarget[target]))
                       ELSE <<target>>
         IN  block \o prepareTargetVectors(bld, Tail(targets))

\* build without the precedence of the per-target map over the vector
EmitsVector_always(bld) == Len(bld.vector) # 0

\* whether build emits the single "vector:" clause
EmitsVector(bld) == Len(bld.vector) # 0 /\ len(bld.vectorsPerTarget) = 0

\* order is the order in which the range loop of build visits the map's keys
build(bld, order) ==
    LET certaintyClause ==
            IF bld.withCertainty
            THEN <<[Clause("certainty") EXCEPT !.num = bld.certainty]>> ELSE <<>>
        distanceClause ==
            IF bld.withDistance
            THEN <<[Clause("distance") EXCEPT !.num = bld.distance]>> ELSE <<>>
        perTargetClause ==
            IF len(bld.vectorsPerTarget) > 0
            THEN <<[Clause("vectorPerTarget") EXCEPT !.perTarget =
                      [i \in 1..Len(order) |->
                          [name |-> order[i],
                           vectors |-> bld.vectorsPerTarget[order[i]]]]]>>
            ELSE <<>>
        vectorClause ==
            IF EmitsVector(bld)
            THEN <<[Clause("vector") EXCEPT !.vec = bld.vector]>> ELSE <<>>
        targetsClause ==
            IF bld.targets # "nil"
            THEN <<[Clause("targets") EXCEPT !.targets = bld.targets]>> ELSE <<>>
        targetVectors == prepareTargetVectors(bld, bld.targetVectors)
        targetVectorsClause ==
            IF Len(targetVectors) > 0
            THEN <<[Clause("targetVectors") EXCEPT !.names = targetVectors]>>
            ELSE <<>>
    IN  certaintyClause \o distanceClause \o perTargetClause \o vectorClause
            \o targetsClause \o targetVectorsClause

(***************************************************************************)
(* The pipelines.  variant names the program: "weaviate" is main.go        *)
(* (Ollama + Weaviate), "qdrant" is part_000 (Ollama + Qdrant), "openai"   *)
(* is chatgpt.gobak (OpenAI + Weaviate).                                   *)
(***************************************************************************)
Variants == {"weaviate", "qdrant", "openai"}

\* most documents in one batch given to indexDocuments
MaxDocs == 3
\* most chunks the generator streams for one answer
MaxChunks == 2
\* the limit of the search request (WithLimit(3), Limit: 3)
Limit == 3

Texts == {"a", "b"}
Queries == {"q"}
Chunks == {"x", "y"}
\* values of resp.Embedding ([]float64): empty and non-empty
Embeddings == {<<>>, <<3>>, <<4, 5>>}

\* float32(v): float64 values are integers here, and the narrower float32
\* keeps the even ones (the low bit of the mantissa is lost)
Float32(v) == v - (v % 2)
convertToFloat32(f64) == [i \in DOMAIN f64 |-> Float32(f64[i])]

\* The three fallback strings returned by processQuery
\* (main.go:109, main.go:125, main.go:154).
SorryEmbedding == "Sorry. An error occurred while processing the query."
SorrySearch == "Sorry. An error occurred while looking for related information."
SorryGenerate == "Sorry. An error occurred while generating the answer."

\* the fallback string of every stage is that of the embedding stage
Sorry_same(stage) == SorryEmbedding

\* the string processQuery returns when the call of the stage returns an error
Sorry(stage) ==
    CASE stage = "embed"    -> SorryEmbedding
      [] stage = "search"   -> SorrySearch
      [] stage = "generate" -> SorryGenerate

\* The first line of the context (main.go:129), without its newline.
Header == "Answer the question from the following information:"

\* One element of the list a search returns.  kind "text": an object whose
\* "text" is a string; "noText": an object without a string "text";
\* "notMap": a list element that is no object (Weaviate's untyped JSON only).
Item(kind, text) == [kind |-> kind, text |-> text]
ItemsOf(v) ==
    {Item("text", t) : t \in Texts} \cup {Item("noText", "")}
        \cup (IF v = "qdrant" THEN {} ELSE {Item("notMap", "")})
\* shape "ok": Data["Get"][className] is a list; "noGet": Data["Get"] is no
\* object; "noClass": Data["Get"][className] is no list
ShapesOf(v) == IF v = "qdrant" THEN {"ok"} ELSE {"ok", "noGet", "noClass"}
ResultsOf(v) ==
    {[shape |-> s, docs |-> d] : s \in {"ok"}, d \in SeqsUpTo(ItemsOf(v), Limit)}
        \cup {[shape |-> s, docs |-> <<>>] : s \in ShapesOf(v) \ {"ok"}}
NoResult == [shape |-> "none", docs |-> <<>>]

\* the loop of the Weaviate programs with the new text put in front
RECURSIVE AssembleWeaviate_front(_, _)
AssembleWeaviate_front(context, documents) ==
    IF documents = <<>> THEN context
    ELSE AssembleWeaviate_front(
             IF Head(documents).kind = "text"
             THEN <<Head(context), Head(documents).text>> \o Tail(context)
             ELSE context,
             Tail(documents))

\* the loop of the Weaviate programs over the documents of the result:
\* context += text + "\n" for every document that has a string "text"
RECURSIVE AssembleWeaviate(_, _)
AssembleWeaviate(context, documents) ==
    IF documents = <<>> THEN context
    ELSE AssembleWeaviate(
             IF Head(documents).kind = "text"
             THEN Append(context, Head(documents).text)
             ELSE context,
             Tail(documents))

\* point.Payload["text"].GetStringValue(): "" unless the value is a string
GetStringValue(point) == IF point.kind = "text" THEN point.text ELSE ""

\* the loop of the Qdrant program over searchResp.Result
RECURSIVE AssembleQdrant(_, _)
AssembleQdrant(context, points) ==
    IF points = <<>> THEN context
    ELSE AssembleQdrant(Append(context, GetStringValue(Head(points))), Tail(points))

\* the context as a sequence of lines, each ended by "\n" in the string
Assemble(v, result) ==
    IF v = "qdrant" THEN AssembleQdrant(<<Header>>, result.docs)
    ELSE IF result.shape = "ok" THEN AssembleWeaviate(<<Header>>, result.docs)
    ELSE <<Header>>

\* the prompt given to the generator: the context, an empty line, the
\* question and, in the Ollama programs, the line that asks for the answer
Prompt(v, context, q) ==
    context \o <<"", q>> \o (IF v = "openai" THEN <<>> ELSE <<"answer:">>)

\* indexDocuments after a failed embedding of document i of n stops the batch
AfterEmbeddingFailure_return(i, n) == n

\* indexDocuments after a failed embedding of document i (0-based) of n:
\* continue with the next document
AfterEmbeddingFailure(i, n) == i + 1

(***************************************************************************)
(* State.                                                                  *)
(***************************************************************************)
VARIABLES
    b,              \* the NearVectorArgumentBuilder
    query,          \* what build returned, <<>> wrapped: a sequence of at most
                    \* one query, emptied by every later With* call
    multiGiven,     \* the last non-empty map given to WithVectorsPerTarget
    singleGiven,    \* whether WithVectorPerTarget was given a non-empty map
    variant,        \* the program that runs
    pc,             \* the position of processQuery / indexDocuments
    question,       \* processQuery's argument query
    embedding,      \* resp.Embedding of the query
    result,         \* what the search returned
    context,        \* the context string, as its lines
    prompt,         \* the prompt given to the generator, as its lines
    answer,         \* the chunks the generator streamed, in arrival order
    ret,            \* the string processQuery returned, <<>> before it returns
    calls,          \* the remote calls made so far, with their outcome
    log,            \* the lines written by log.Printf
    documents,      \* indexDocuments' argument documents
    i,              \* the index of the loop of indexDocuments (0-based)
    objects,        \* the objects of the Weaviate class, in creation order
    points          \* the points of the Qdrant collection, by id

builderVars == <<b, query, multiGiven, singleGiven>>
queryVars == <<question, embedding, result, context, prompt, answer, ret>>
indexVars == <<documents, i, objects, points>>
vars == <<builderVars, variant, pc, queryVars, calls, log, indexVars>>

Call(stage, ok) == [stage |-> stage, ok |-> ok]

IdleBuilder ==
    /\ b = NewBuilder
    /\ query = <<>>
    /\ multiGiven = EmptyMap
    /\ singleGiven = FALSE

IdleQuery ==
    /\ question = ""
    /\ embedding = <<>>
    /\ result = NoResult
    /\ context = <<>>
    /\ prompt = <<>>
    /\ answer = <<>>
    /\ ret = <<>>

IdleIndex ==
    /\ documents = <<>>
    /\ i = 0
    /\ objects = <<>>
    /\ points = EmptyMap

(***************************************************************************)
(* The builder, called in any order.                                       *)
(***************************************************************************)
InitBuilder ==
    /\ IdleBuilder
    /\ IdleQuery
    /\ IdleIndex
    /\ variant = "weaviate"
    /\ pc = "builder"
    /\ calls = <<>>
    /\ log = <<>>

OnlyBuilder == UNCHANGED <<variant, pc, queryVars, calls, log, indexVars>>

CallWithVector ==
    \E v \in VectorInputs :
        /\ b' = WithVector(b, v)
        /\ query' = <<>>
        /\ UNCHANGED <<multiGiven, singleGiven>>
        /\ OnlyBuilder

CallWithVectorPerTarget ==
    \E m \in VectorPerTargetInputs :
        /\ b' = WithVectorPerTarget(b, m)
        /\ query' = <<>>
        /\ singleGiven' = (singleGiven \/ len(m) > 0)
        /\ UNCHANGED multiGiven
        /\ OnlyBuilder

CallWithVectorsPerTarget ==
    \E m \in VectorsPerTargetInputs :
        /\ b' = WithVectorsPerTarget(b, m)
        /\ query' = <<>>
        /\ multiGiven' = IF len(m) > 0 THEN m ELSE multiGiven
        /\ UNCHANGED singleGiven
        /\ OnlyBuilder

CallWithCertainty ==
    \E c \in Thresholds :
        /\ b' = WithCertainty(b, c)
        /\ query' = <<>>
        /\ UNCHANGED <<multiGiven, singleGiven>>
        /\ OnlyBuilder

CallWithDistance ==
    \E d \in Thresholds :
        /\ b' = WithDistance(b, d)
        /\ query' = <<>>
        /\ UNCHANGED <<multiGiven, singleGiven>>
        /\ OnlyBuilder

CallWithTargetVectors ==
    \E names \in DeclaredInputs :
        /\ b' = WithTargetVectors(b, names)
        /\ query' = <<>>
        /\ UNCHANGED <<multiGiven, singleGiven>>
        /\ OnlyBuilder

CallWithTargets ==
    \E t \in TargetsInputs :
        /\ b' = WithTargets(b, t)
        /\ query' = <<>>
        /\ UNCHANGED <<multiGiven, singleGiven>>
        /\ OnlyBuilder

CallBuild ==
    \E order \in Orders(b.vectorsPerTarget) :
        /\ query' = <<build(b, order)>>
        /\ UNCHANGED <<b, multiGiven, singleGiven>>
        /\ OnlyBuilder

NextBuilder ==
    \/ CallWithVector
    \/ CallWithVectorPerTarget
    \/ CallWithVectorsPerTarget
    \/ CallWithCertainty
    \/ CallWithDistance
    \/ CallWithTargetVectors
    \/ CallWithTargets
    \/ CallBuild

SpecBuilder == InitBuilder /\ [][NextBuilder]_vars

(***************************************************************************)
(* processQuery, stage by stage.  Every remote call either returns an      *)
(* error or a response; a response of the embedding service carries an     *)
(* embedding and a response of the chat service carries a choice.          *)
(***************************************************************************)
InitQuery ==
    /\ IdleBuilder
    /\ IdleIndex
    /\ variant \in Variants
    /\ pc = "embed"
    /\ question \in Queries
    /\ embedding = <<>>
    /\ result = NoResult
    /\ context = <<>>
    /\ prompt = <<>>
    /\ answer = <<>>
    /\ ret = <<>>
    /\ calls = <<>>
    /\ log = <<>>

\* the call of the stage returned an error: log it and return the fallback
Fail(stage) ==
    /\ calls' = Append(calls, Call(stage, FALSE))
    /\ log' = Append(log, stage)
    /\ ret' = <<Sorry(stage)>>
    /\ pc' = "done"

EmbedQueryFail ==
    /\ pc = "embed"
    /\ Fail("embed")
    /\ UNCHANGED <<builderVars, variant, question, embedding, result, context,
                   prompt, answer, indexVars>>

EmbedQueryOk ==
    /\ pc = "embed"
    /\ \E e \in Embeddings : embedding' = e
    /\ calls' = Append(calls, Call("embed", TRUE))
    /\ pc' = "search"
    /\ UNCHANGED <<builderVars, variant, question, result, context, prompt,
                   answer, ret, log, indexVars>>

\* The Weaviate programs build the nearVector argument of the request with
\* NearVectorArgBuilder().WithVector(...); the Qdrant program passes the vector.
BuildNearVector ==
    IF variant = "qdrant"
    THEN UNCHANGED builderVars
    ELSE /\ b' = WithVector(NewBuilder,
                            IF variant = "openai" THEN embedding
                            ELSE convertToFloat32(embedding))
         /\ query' = <<build(b', <<>>)>>
         /\ UNCHANGED <<multiGiven, singleGiven>>

SearchFail ==
    /\ pc = "search"
    /\ BuildNearVector
    /\ Fail("search")
    /\ UNCHANGED <<variant, question, embedding, result, context, prompt, answer,
                   indexVars>>

SearchOk ==
    /\ pc = "search"
    /\ BuildNearVector
    /\ \E r \in ResultsOf(variant) : result' = r
    /\ calls' = Append(calls, Call("search", TRUE))
    /\ pc' = "assemble"
    /\ UNCHANGED <<variant, question, embedding, context, prompt, answer, ret,
                   log, indexVars>>

AssembleContext ==
    /\ pc = "assemble"
    /\ context' = Assemble(variant, result)
    /\ prompt' = Prompt(variant, context', question)
    /\ pc' = "generate"
    /\ UNCHANGED <<builderVars, variant, question, embedding, result, answer, ret,
                   calls, log, indexVars>>

\* the generator streamed some chunks and then failed
GenerateFail ==
    /\ pc = "generate"
    /\ \E cs \in SeqsUpTo(Chunks, MaxChunks) :
           answer' = IF variant = "openai" THEN <<>> ELSE cs
    /\ Fail("generate")
    /\ UNCHANGED <<builderVars, variant, question, embedding, result, context,
                   prompt, indexVars>>

\* the generator streamed its chunks (Ollama), or returned its one message
\* (OpenAI), and the answer is returned
GenerateOk ==
    /\ pc = "generate"
    /\ \E cs \in SeqsUpTo(Chunks, MaxChunks) :
           /\ variant = "openai" => Len(cs) = 1
           /\ answer' = cs
    /\ ret' = answer'
    /\ calls' = Append(calls, Call("generate", TRUE))
    /\ pc' = "done"
    /\ UNCHANGED <<builderVars, variant, question, embedding, result, context,
                   prompt, log, indexVars>>

NextQuery ==
    \/ EmbedQueryFail
    \/ EmbedQueryOk
    \/ SearchFail
    \/ SearchOk
    \/ AssembleContext
    \/ GenerateFail
    \/ GenerateOk

SpecQuery == InitQuery /\ [][NextQuery]_vars

(***************************************************************************)
(* indexDocuments, one document per step.                                  *)
(***************************************************************************)
InitIndex ==
    /\ IdleBuilder
    /\ IdleQuery
    /\ variant \in Variants
    /\ pc = "index"
    /\ documents \in SeqsUpTo(Texts, MaxDocs)
    /\ i = 0
    /\ objects = <<>>
    /\ points = EmptyMap
    /\ calls = <<>>
    /\ log = <<>>

InLoop == pc = "index" /\ i < Len(documents)
doc == documents[i + 1]

\* the embedding of the document failed: log it, continue
IndexEmbeddingFail ==
    /\ InLoop
    /\ calls' = Append(calls, Call("embed", FALSE))
    /\ log' = Append(log, "embed")
    /\ i' = AfterEmbeddingFailure(i, Len(documents))
    /\ UNCHANGED <<builderVars, variant, pc, queryVars, documents, objects, points>>

\* the insertion into the store failed: log it, the loop goes on
IndexInsertFail ==
    /\ InLoop
    /\ calls' = calls \o <<Call("embed", TRUE), Call("insert", FALSE)>>
    /\ log' = Append(log, "insert")
    /\ i' = i + 1
    /\ UNCHANGED <<builderVars, variant, pc, queryVars, documents, objects, points>>

\* the document is embedded and stored: Weaviate creates a new object,
\* Qdrant upserts the point whose id is the index of the loop
IndexInsertOk ==
    /\ InLoop
    /\ calls' = calls \o <<Call("embed", TRUE), Call("insert", TRUE)>>
    /\ IF variant = "qdrant"
       THEN /\ points' = [k \in DOMAIN points \cup {i} |->
                              IF k = i THEN doc ELSE points[k]]
            /\ UNCHANGED objects
       ELSE /\ objects' = Append(objects, doc)
            /\ UNCHANGED points
    /\ i' = i + 1
    /\ UNCHANGED <<builderVars, variant, pc, queryVars, documents, log>>

\* the loop is over and indexDocuments returns
IndexReturn ==
    /\ pc = "index"
    /\ i >= Len(documents)
    /\ pc' = "done"
    /\ UNCHANGED <<builderVars, variant, queryVars, calls, log, indexVars>>

NextIndex ==
    \/ IndexEmbeddingFail
    \/ IndexInsertFail
    \/ IndexInsertOk
    \/ IndexReturn

SpecIndex == InitIndex /\ [][NextIndex]_vars /\ WF_vars(NextIndex)

(***************************************************************************)
(* Reading a built query.                                                  *)
(***************************************************************************)
Built == query # <<>>
Range(s) == {s[n] : n \in DOMAIN s}
ClausesOf(kind) == {c \in Range(query[1]) : c.kind = kind}
Has(kind) == ClausesOf(kind) # {}
\* the list of the targetVectors clause, empty when build emits no such clause
EmittedNames ==
    IF Has("targetVectors") THEN (CHOOSE c \in ClausesOf("targetVectors") : TRUE).names
    ELSE <<>>
Declared == b.targetVectors
Mapped(p) == Declared[p] \in DOMAIN b.vectorsPerTarget
VectorsOf(p) == b.vectorsPerTarget[Declared[p]]

RECURSIVE SumTo(_, _)
SumTo(f, n) == IF n = 0 THEN 0 ELSE f[n] + SumTo(f, n - 1)

\* the emitted list is the concatenation of one block per declared position,
\* block p being Declared[p] repeated blockLen[p] times
IsBlocks(out, blockLen) ==
    /\ Len(out) = SumTo(blockLen, Len(Declared))
    /\ \A p \in 1..Len(Declared) : \A n \in 1..blockLen[p] :
           out[SumTo(blockLen, p - 1) + n] = Declared[p]

C2_RepeatedNamesExample ==
    (/\ Built
     /\ Declared = <<"t1", "t1", "t2">>
     /\ b.vectorsPerTarget = ("t1" :> <<(<<1>>), (<<1>>)>>))
        => EmittedNames = <<"t1", "t1", "t2">>

(***************************************************************************)
(* C3: once a non-empty per-target map was supplied, by either method and  *)
(* in any order relative to WithVector, a built query has a                *)
(* vectorPerTarget clause and no vector clause; the vector clause appears  *)
(* only when no per-target map is set and the vector is non-empty.         *)
(***************************************************************************)
PerTargetSupplied == singleGiven \/ multiGiven # EmptyMap

C3_PerTargetPrecedesVector ==
    Built =>
        /\ PerTargetSupplied => (Has("vectorPerTarget") /\ ~Has("vector"))
        /\ Has("vector") =>
               /\ ~PerTargetSupplied
               /\ len(b.vectorsPerTarget) = 0
               /\ Len(b.vector) > 0
               /\ \A c \in ClausesOf("vector") : c.vec = b.vector

\* a build of a builder given both a non-empty vector and a per-target map
C3_Witness ==
    /\ Built
    /\ PerTargetSupplied
    /\ Len(b.vector) > 0
    /\ Has("vectorPerTarget")

(***************************************************************************)
(* C4: when both WithVectorsPerTarget and WithVectorPerTarget were given   *)
(* non-empty maps, in either order, the built query carries the vector     *)
(* lists given to WithVectorsPerTarget.                                    *)
(***************************************************************************)
C4_VectorsPerTargetWins ==
    (Built /\ singleGiven /\ multiGiven # EmptyMap) =>
        /\ Has("vectorPerTarget")
        /\ \A c \in ClausesOf("vectorPerTarget") :
               Range(c.perTarget) =
                   {[name |-> k, vectors |-> multiGiven[k]] : k \in DOMAIN multiGiven}

(***************************************************************************)
(* C5: no built query lacks both a non-empty vector clause and a           *)
(* vectorPerTarget clause.                                                 *)
(***************************************************************************)
C5_NeverWithoutVector ==
    Built =>
        \/ \E c \in ClausesOf("vector") : Len(c.vec) > 0
        \/ Has("vectorPerTarget")

(***************************************************************************)
(* C10: build is deterministic and leaves the builder alone: a build that  *)
(* follows a build of the same configuration returns the same string, and  *)
(* no build changes a field of the builder.                                *)
(***************************************************************************)
C10_BuildDeterministic ==
    [][(query # <<>> /\ query' # <<>>) => (query' = query /\ b' = b)]_vars

(***************************************************************************)
(* Reading a run of processQuery.                                          *)
(***************************************************************************)
StageOrder == <<"embed", "search", "generate">>
Returned == pc = "done"
MissingText == \E n \in DOMAIN result.docs : result.docs[n].kind # "text"

C7_MissingTextFailsRetrieval ==
    (result # NoResult /\ MissingText) =>
        /\ \A n \in DOMAIN calls : calls[n].stage # "generate"
        /\ Returned => ret = <<SorrySearch>>

(***************************************************************************)
(* C9: the context is the header line followed by the texts of the         *)
(* results, one per line, in the order the search returned them, without   *)
(* reordering or duplication; the prompt given to the generator starts     *)
(* with it.  (A result without a text gives no line in the Weaviate        *)
(* programs and an empty line in the Qdrant program.)                      *)
(***************************************************************************)
C9_ContextInSearchOrder ==
    context # <<>> =>
        LET docs == result.docs
            K == {n \in DOMAIN docs : variant = "qdrant" \/ docs[n].kind = "text"}
            pos(n) == 1 + Cardinality({m \in K : m <= n})
        IN  /\ context[1] = Header
            /\ Len(context) = 1 + Cardinality(K)
            /\ \A n \in K :
                   context[pos(n)] = (IF docs[n].kind = "text" THEN docs[n].text ELSE "")
            /\ Len(prompt) > Len(context)
            /\ SubSeq(prompt, 1, Len(context)) = context

\* a returned answer generated from a context of three texts, not all equal
C9_Witness ==
    /\ Returned
    /\ Len(calls) = 3
    /\ Len(result.docs) = 3
    /\ \A n \in 1..3 : result.docs[n].kind = "text"
    /\ result.docs[1].text # result.docs[2].text
    /\ Len(context) = 4

(***************************************************************************)
(* Reading a run of indexDocuments.                                        *)
(***************************************************************************)
\* the outcome of every document handled so far, from the calls made:
\* "embed" (embedding failed), "insert" (insertion failed) or "ok"
RECURSIVE Outcomes(_)
Outcomes(cs) ==
    IF cs = <<>> THEN <<>>
    ELSE IF ~Head(cs).ok THEN <<"embed">> \o Outcomes(Tail(cs))
    ELSE <<IF cs[2].ok THEN "ok" ELSE "insert">> \o Outcomes(Tail(Tail(cs)))

IsFailure(o) == o # "ok"

RECURSIVE StoredTexts(_, _)
StoredTexts(outs, docs) ==
    IF outs = <<>> THEN <<>>
    ELSE (IF Head(outs) = "ok" THEN <<Head(docs)>> ELSE <<>>)
             \o StoredTexts(Tail(outs), Tail(docs))

(***************************************************************************)
(* C8: indexDocuments handles every document of the batch in order and     *)
(* returns: a failure of one document neither ends the batch nor skips a   *)
(* later document, every failing document is reported exactly once (one    *)
(* log line, written while that document is handled), and every other      *)
(* document is stored (in the Qdrant program under the id equal to its     *)
(* position in the batch).                                                 *)
(***************************************************************************)
C8_Handled ==
    LET outs == Outcomes(calls)
    IN  /\ i <= Len(documents)
        /\ Len(outs) = i
        /\ Returned => i = Len(documents)
        /\ log = SelectSeq(outs, IsFailure)
        /\ IF variant = "qdrant"
           THEN /\ DOMAIN points = {k - 1 : k \in {n \in DOMAIN outs : outs[n] = "ok"}}
                /\ \A k \in DOMAIN points : points[k] = documents[k + 1]
                /\ objects = <<>>
           ELSE /\ objects = StoredTexts(outs, SubSeq(documents, 1, i))
                /\ points = EmptyMap

====
